---- MODULE Spec2Model ----
(***************************************************************************)
(* Model of scripts/debug-offline-storage.py: a read-only diagnostic run   *)
(* over the offline-storage SQLite store (offline_manga, offline_chapters, *)
(* download_queue).  One behaviour is one invocation of the script: either *)
(* inspect_database() (no arguments) or check_specific_manga() (manga_id   *)
(* and optional extension_id).  Every cursor.execute() is one step; the    *)
(* external downloader may commit between two steps.                       *)
(*                                                                         *)
(* Rows carry the columns the queries filter, join, sort or compute on;    *)
(* columns that are only printed (titles, progress, error_message,         *)
(* last_updated_at, size_bytes, completed_at) are left out.                *)
(***************************************************************************)
EXTENDS Integers, Sequences, FiniteSets, TLC

VARIABLES
    db,          \* the store file: [schema, manga, chapters, queue], tables in rowid order
    dbExists,    \* DB_PATH.exists()
    dbAtOpen,    \* the store content at the instant connect_db() returned
    now,         \* wall clock, epoch milliseconds
    argv,        \* sys.argv[1:]
    pc,          \* position of the run
    connOpen,    \* the sqlite3 connection is open
    exitStatus,  \* process exit status, -1 while running
    out,         \* what has been printed, as a sequence of section tags
    res,         \* the rows each query returned
    fresh,       \* the queries executed since the downloader last committed
    writes       \* commits of the downloader during this run

vars == <<db, dbExists, dbAtOpen, now, argv, pc, connOpen, exitStatus, out, res, fresh, writes>>

----------------------------------------------------------------------------
(* Values *)

NULL == -1                  \* SQL NULL in a numeric column
NULLTEXT == "<null>"        \* SQL NULL in a text column

DefaultExtension == "com.weebcentral.manga"
OtherExtension == "other.ext"

FrozenThresholdMs == 3600000

AllTables == {"offline_manga", "offline_chapters", "download_queue"}

Statuses == {"queued", "downloading", "completed", "failed"}

EmptyRes ==
    [ manga_list |-> <<>>, chapters |-> <<>>, queue |-> <<>>,
      manga_count |-> 0, chapter_count |-> 0, queued_count |-> 0,
      downloading_count |-> 0, failed_count |-> 0, total_size |-> 0,
      duplicate_queue |-> <<>>, frozen |-> {}, zero_pages |-> <<>>,
      l_manga |-> <<>>, l_chapters |-> <<>>, l_queue |-> <<>> ]

----------------------------------------------------------------------------
(* Generic helpers *)

Range(s) == {s[i] : i \in DOMAIN s}

RECURSIVE SumOver(_, _)
SumOver(f, S) ==
    IF S = {} THEN 0
    ELSE LET x == CHOOSE y \in S : TRUE IN f[x] + SumOver(f, S \ {x})

\* A multiset of result rows: row -> number of times the query returned it
BagOf(proj) ==
    LET P == {proj[x] : x \in DOMAIN proj}
    IN  [p \in P |-> Cardinality({x \in DOMAIN proj : proj[x] = p})]

\* ORDER BY over a set of distinct rows: every arrangement of the rows in which
\* no row stands before one that sorts strictly ahead of it.  SQLite leaves the
\* order of rows equal on all ORDER BY terms undefined (it depends on the plan
\* and the indexes of the externally owned schema), so each is possible.
OrderBy(S, before) ==
    LET n == Cardinality(S)
    IN  {s \in [1..n -> S] :
            /\ \A i, j \in 1..n : i # j => s[i] # s[j]
            /\ \A i \in 1..(n - 1) : <<s[i + 1], s[i]>> \notin before}

\* The pairs of rows of S that a comparison puts in strict order
Ordered(S, Before(_, _)) == {x \in S \X S : Before(x[1], x[2])}

\* BINARY collation of the slugs the model uses
SlugsSorted == <<"alpha", "beta">>
Rank(t) == CHOOSE i \in DOMAIN SlugsSorted : SlugsSorted[i] = t
TextLess(a, b) == Rank(a) < Rank(b)

----------------------------------------------------------------------------
(* The queries, each over the store content d it reads *)

\* What the queries would read under one read transaction spanning the run:
\* the store as it was at open (not what the script does)
VisibleInTransaction == dbAtOpen

\* What a query of the run reads: the live store, no transaction is held
Visible == db

NameLikeOffline(t) == t \in {"offline_manga", "offline_chapters"}
NameLikeDownload(t) == t = "download_queue"

\* SELECT name FROM sqlite_master WHERE type='table' AND name LIKE 'offline%'
\*   OR name LIKE 'download%'
TablesFound(d) == {t \in d.schema : NameLikeOffline(t) \/ NameLikeDownload(t)}

\* sqlite3.OperationalError "no such table" when a referenced table is missing
QueryFails(d, refs) == ~(refs \subseteq d.schema)

MangaBefore(a, b) == a.downloaded_at > b.downloaded_at

SelectManga(d) == OrderBy(Range(d.manga), Ordered(Range(d.manga), MangaBefore))

\* f"{manga['total_size_bytes']:,}" raises TypeError on None
RenderSizeFails(rows) == \E r \in rows : r.total_size_bytes = NULL

ChapterJoin(d) ==
    { [id |-> oc.id, manga_slug |-> om.manga_slug, chapter_id |-> oc.chapter_id,
       chapter_number |-> oc.chapter_number, total_pages |-> oc.total_pages] :
        <<oc, om>> \in {x \in Range(d.chapters) \X Range(d.manga) :
                            x[1].offline_manga_id = x[2].id} }

ChapterBefore(a, b) ==
    \/ TextLess(a.manga_slug, b.manga_slug)
    \/ a.manga_slug = b.manga_slug /\ a.chapter_number < b.chapter_number

SelectChapters(d) == OrderBy(ChapterJoin(d), Ordered(ChapterJoin(d), ChapterBefore))

\* ORDER BY priority ASC, queued_at ASC (not what the script asks for)
QueueBeforeAscending(a, b) ==
    \/ a.priority < b.priority
    \/ a.priority = b.priority /\ a.queued_at < b.queued_at

QueueBefore(a, b) ==
    \/ a.priority > b.priority
    \/ a.priority = b.priority /\ a.queued_at < b.queued_at

SelectQueue(d) == OrderBy(Range(d.queue), Ordered(Range(d.queue), QueueBefore))

CountRows(t) == Len(t)

CountStatus(d, st) == Cardinality({q \in Range(d.queue) : q.status = st})

\* SUM(total_size_bytes) skips NULLs and is NULL over no rows; "or 0" in the caller
SumSize(d) ==
    LET sized == {i \in DOMAIN d.manga : d.manga[i].total_size_bytes # NULL}
    IN  IF sized = {} THEN NULL
        ELSE SumOver([i \in sized |-> d.manga[i].total_size_bytes], sized)

OrZero(v) == IF v = NULL THEN 0 ELSE v

\* download_queue JOIN offline_manga ON (extension_id, manga_id)
\*   JOIN offline_chapters ON offline_manga_id = om.id AND chapter_id = dq.chapter_id
\*   WHERE dq.chapter_id IS NOT NULL: one result row per matching (dq, om, oc)
DuplicateJoin(d) ==
    {x \in Range(d.queue) \X Range(d.manga) \X Range(d.chapters) :
        /\ x[1].extension_id = x[2].extension_id
        /\ x[1].manga_id = x[2].manga_id
        /\ x[3].offline_manga_id = x[2].id
        /\ x[3].chapter_id # NULLTEXT   \* NULL = NULL is not true in SQL
        /\ x[3].chapter_id = x[1].chapter_id
        /\ x[1].chapter_id # NULLTEXT}

DuplicateRow(x) ==
    [queue_id |-> x[1].id, chapter_id |-> x[1].chapter_id,
     queue_status |-> x[1].status, manga_slug |-> x[2].manga_slug]

SelectDuplicates(d) == BagOf([x \in DuplicateJoin(d) |-> DuplicateRow(x)])

\* strftime('%s', 'now') * 1000: the clock in whole seconds, scaled to ms
SqlNowMs(t) == (t \div 1000) * 1000

\* (strftime('%s','now') * 1000 - started_at) / 1000 / 60 on integers
MinutesElapsed(t, started) == ((SqlNowMs(t) - started) \div 1000) \div 60

IsFrozen(q, t) ==
    /\ q.status = "downloading"
    /\ q.started_at # NULL
    /\ (SqlNowMs(t) - q.started_at) > FrozenThresholdMs

SelectFrozen(d, t) ==
    { [id |-> q.id, started_at |-> q.started_at,
       minutes_elapsed |-> MinutesElapsed(t, q.started_at)] :
        q \in {r \in Range(d.queue) : IsFrozen(r, t)} }

IsZeroPages(oc) == oc.total_pages = 0 \/ oc.total_pages = NULL

ZeroPagesJoin(d) ==
    {x \in Range(d.chapters) \X Range(d.manga) :
        x[1].offline_manga_id = x[2].id /\ IsZeroPages(x[1])}

ZeroPagesRow(x) ==
    [manga_slug |-> x[2].manga_slug, chapter_id |-> x[1].chapter_id,
     chapter_number |-> x[1].chapter_number, total_pages |-> x[1].total_pages]

SelectZeroPages(d) == BagOf([x \in ZeroPagesJoin(d) |-> ZeroPagesRow(x)])

\* check_specific_manga: sys.argv[1] and sys.argv[2] or the default extension
ArgMangaId == argv[1]
ArgExtensionId == IF Len(argv) > 1 THEN argv[2] ELSE DefaultExtension

LookupMangaRows(d, ext, mid) ==
    {m \in Range(d.manga) : m.extension_id = ext /\ m.manga_id = mid}

ChapterNumberBefore(a, b) == a.chapter_number < b.chapter_number

LookupChapterRows(d, omid) ==
    LET rows == {oc \in Range(d.chapters) : oc.offline_manga_id = omid}
    IN  OrderBy(rows, Ordered(rows, ChapterNumberBefore))

LookupQueueRows(d, ext, mid) ==
    LET rows == {q \in Range(d.queue) : q.extension_id = ext /\ q.manga_id = mid}
    IN  OrderBy(rows, Ordered(rows, QueueBefore))

\* The display loop of section 2: a new heading whenever the slug changes
RECURSIVE Groups(_)
Groups(rows) ==
    IF rows = <<>> THEN <<>>
    ELSE LET n == Len(rows)
             init == Groups(SubSeq(rows, 1, n - 1))
         IN  IF n > 1 /\ rows[n - 1].manga_slug = rows[n].manga_slug
             THEN [init EXCEPT ![Len(init)] = Append(@, rows[n])]
             ELSE Append(init, <<rows[n]>>)

----------------------------------------------------------------------------
(* The run *)

Emit(tags) == out' = out \o tags

\* An exception leaves the function: nothing on the way closes the connection,
\* the interpreter prints the traceback and exits with status 1
Raise ==
    /\ pc' = "crashed"
    /\ exitStatus' = 1
    /\ UNCHANGED connOpen

\* conn.close() and return to the end of the script
CloseAndReturn ==
    /\ pc' = "done"
    /\ exitStatus' = 0
    /\ connOpen' = FALSE

Ran(q) == fresh' = fresh \cup {q}

\* connect_db(), then the banner
Connect(next, banner) ==
    /\ pc = "main"
    /\ IF ~dbExists
       THEN /\ Emit(<<"db_not_found">>)
            /\ pc' = "exited"
            /\ exitStatus' = 1
            /\ UNCHANGED <<connOpen, dbAtOpen>>
       ELSE /\ connOpen' = TRUE
            /\ dbAtOpen' = db
            /\ Emit(<<banner>>)
            /\ pc' = next
            /\ UNCHANGED exitStatus
    /\ UNCHANGED <<db, dbExists, now, argv, res, fresh, writes>>

InspectConnect == argv = <<>> /\ Connect("tables", "banner")

CheckConnect == argv # <<>> /\ Connect("l_manga", "l_banner")

CheckTables ==
    /\ pc = "tables"
    /\ IF TablesFound(Visible) = {}
       THEN Emit(<<"no_tables">>) /\ CloseAndReturn
       ELSE Emit(<<"tables">>) /\ pc' = "q_manga" /\ UNCHANGED <<connOpen, exitStatus>>
    /\ UNCHANGED <<db, dbExists, dbAtOpen, now, argv, res, fresh, writes>>

QueryManga ==
    /\ pc = "q_manga"
    /\ IF QueryFails(Visible, {"offline_manga"})
       THEN Emit(<<"hdr1">>) /\ Raise /\ UNCHANGED <<res, fresh>>
       ELSE \E rows \in SelectManga(Visible) :
              /\ res' = [res EXCEPT !.manga_list = rows]
              /\ Ran("manga_list")
              /\ IF RenderSizeFails(Range(rows))
                 THEN Emit(<<"hdr1", "sec1_partial">>) /\ Raise
                 ELSE /\ Emit(<<"hdr1", "sec1">>)
                      /\ pc' = "q_chapters"
                      /\ UNCHANGED <<connOpen, exitStatus>>
    /\ UNCHANGED <<db, dbExists, dbAtOpen, now, argv, writes>>

QueryChapters ==
    /\ pc = "q_chapters"
    /\ IF QueryFails(Visible, {"offline_chapters", "offline_manga"})
       THEN Emit(<<"hdr2">>) /\ Raise /\ UNCHANGED <<res, fresh>>
       ELSE \E rows \in SelectChapters(Visible) :
              /\ res' = [res EXCEPT !.chapters = rows]
              /\ Ran("chapters")
              /\ Emit(<<"hdr2", "sec2">>)
              /\ pc' = "q_queue"
              /\ UNCHANGED <<connOpen, exitStatus>>
    /\ UNCHANGED <<db, dbExists, dbAtOpen, now, argv, writes>>

QueryQueue ==
    /\ pc = "q_queue"
    /\ IF QueryFails(Visible, {"download_queue"})
       THEN Emit(<<"hdr3">>) /\ Raise /\ UNCHANGED <<res, fresh>>
       ELSE \E rows \in SelectQueue(Visible) :
              /\ res' = [res EXCEPT !.queue = rows]
              /\ Ran("queue")
              /\ Emit(<<"hdr3", "sec3">>)
              /\ pc' = "c_manga"
              /\ UNCHANGED <<connOpen, exitStatus>>
    /\ UNCHANGED <<db, dbExists, dbAtOpen, now, argv, writes>>

\* One statistics query: a scalar read, nothing printed until all six are in
Scalar(at, field, refs, value, next, before) ==
    /\ pc = at
    /\ IF QueryFails(Visible, refs)
       THEN Emit(before) /\ Raise /\ UNCHANGED <<res, fresh>>
       ELSE /\ res' = [res EXCEPT ![field] = value]
            /\ Ran(field)
            /\ Emit(before)
            /\ pc' = next
            /\ UNCHANGED <<connOpen, exitStatus>>
    /\ UNCHANGED <<db, dbExists, dbAtOpen, now, argv, writes>>

CountManga ==
    Scalar("c_manga", "manga_count", {"offline_manga"},
           CountRows(Visible.manga), "c_chapters", <<"hdr4">>)

CountChapters ==
    Scalar("c_chapters", "chapter_count", {"offline_chapters"},
           CountRows(Visible.chapters), "c_queued", <<>>)

CountQueued ==
    Scalar("c_queued", "queued_count", {"download_queue"},
           CountStatus(Visible, "queued"), "c_downloading", <<>>)

CountDownloading ==
    Scalar("c_downloading", "downloading_count", {"download_queue"},
           CountStatus(Visible, "downloading"), "c_failed", <<>>)

CountFailed ==
    Scalar("c_failed", "failed_count", {"download_queue"},
           CountStatus(Visible, "failed"), "c_size", <<>>)

TotalSize ==
    /\ pc = "c_size"
    /\ IF QueryFails(Visible, {"offline_manga"})
       THEN Raise /\ UNCHANGED <<res, fresh, out>>
       ELSE /\ res' = [res EXCEPT !.total_size = OrZero(SumSize(Visible))]
            /\ Ran("total_size")
            /\ Emit(<<"sec4">>)
            /\ pc' = "q_duplicates"
            /\ UNCHANGED <<connOpen, exitStatus>>
    /\ UNCHANGED <<db, dbExists, dbAtOpen, now, argv, writes>>

QueryDuplicates ==
    /\ pc = "q_duplicates"
    /\ IF QueryFails(Visible, {"download_queue", "offline_manga", "offline_chapters"})
       THEN Emit(<<"hdr5">>) /\ Raise /\ UNCHANGED <<res, fresh>>
       ELSE /\ res' = [res EXCEPT !.duplicate_queue = SelectDuplicates(Visible)]
            /\ Ran("duplicate_queue")
            /\ Emit(<<"hdr5", "duplicates">>)
            /\ pc' = "q_frozen"
            /\ UNCHANGED <<connOpen, exitStatus>>
    /\ UNCHANGED <<db, dbExists, dbAtOpen, now, argv, writes>>

QueryFrozen ==
    /\ pc = "q_frozen"
    /\ IF QueryFails(Visible, {"download_queue"})
       THEN Raise /\ UNCHANGED <<res, fresh, out>>
       ELSE /\ res' = [res EXCEPT !.frozen = SelectFrozen(Visible, now)]
            /\ Ran("frozen")
            /\ Emit(<<"frozen">>)
            /\ pc' = "q_zero_pages"
            /\ UNCHANGED <<connOpen, exitStatus>>
    /\ UNCHANGED <<db, dbExists, dbAtOpen, now, argv, writes>>

QueryZeroPages ==
    /\ pc = "q_zero_pages"
    /\ IF QueryFails(Visible, {"offline_chapters", "offline_manga"})
       THEN Raise /\ UNCHANGED <<res, fresh, out>>
       ELSE /\ res' = [res EXCEPT !.zero_pages = SelectZeroPages(Visible)]
            /\ Ran("zero_pages")
            /\ Emit(<<"zero_pages", "footer">>)
            /\ CloseAndReturn
    /\ UNCHANGED <<db, dbExists, dbAtOpen, now, argv, writes>>

\* cursor.fetchone() over the matching rows; "not found" closes and returns
LookupManga ==
    /\ pc = "l_manga"
    /\ IF QueryFails(Visible, {"offline_manga"})
       THEN Raise /\ UNCHANGED <<res, fresh, out>>
       ELSE LET found == LookupMangaRows(Visible, ArgExtensionId, ArgMangaId)
            IN  /\ Ran("l_manga")
                /\ IF found = {}
                   THEN /\ res' = [res EXCEPT !.l_manga = <<>>]
                        /\ Emit(<<"l_not_found">>)
                        /\ CloseAndReturn
                   ELSE \E m \in found :
                          /\ res' = [res EXCEPT !.l_manga = <<m>>]
                          /\ IF RenderSizeFails({m})
                             THEN Emit(<<"l_manga_partial">>) /\ Raise
                             ELSE /\ Emit(<<"l_manga">>)
                                  /\ pc' = "l_chapters"
                                  /\ UNCHANGED <<connOpen, exitStatus>>
    /\ UNCHANGED <<db, dbExists, dbAtOpen, now, argv, writes>>

LookupChapters ==
    /\ pc = "l_chapters"
    /\ IF QueryFails(Visible, {"offline_chapters"})
       THEN Raise /\ UNCHANGED <<res, fresh, out>>
       ELSE \E rows \in LookupChapterRows(Visible, res.l_manga[1].id) :
              /\ res' = [res EXCEPT !.l_chapters = rows]
              /\ Ran("l_chapters")
              /\ Emit(<<"l_chapters">>)
              /\ pc' = "l_queue"
              /\ UNCHANGED <<connOpen, exitStatus>>
    /\ UNCHANGED <<db, dbExists, dbAtOpen, now, argv, writes>>

LookupQueue ==
    /\ pc = "l_queue"
    /\ IF QueryFails(Visible, {"download_queue"})
       THEN Raise /\ UNCHANGED <<res, fresh, out>>
       ELSE \E rows \in LookupQueueRows(Visible, ArgExtensionId, ArgMangaId) :
              /\ res' = [res EXCEPT !.l_queue = rows]
              /\ Ran("l_queue")
              /\ Emit(<<"l_queue">>)
              /\ CloseAndReturn
    /\ UNCHANGED <<db, dbExists, dbAtOpen, now, argv, writes>>

NextRun ==
    \/ InspectConnect
    \/ CheckConnect
    \/ CheckTables
    \/ QueryManga
    \/ QueryChapters
    \/ QueryQueue
    \/ CountManga
    \/ CountChapters
    \/ CountQueued
    \/ CountDownloading
    \/ CountFailed
    \/ TotalSize
    \/ QueryDuplicates
    \/ QueryFrozen
    \/ QueryZeroPages
    \/ LookupManga
    \/ LookupChapters
    \/ LookupQueue

\* python debug-offline-storage.py
NextInspect ==
    \/ InspectConnect
    \/ CheckTables
    \/ QueryManga
    \/ QueryChapters
    \/ QueryQueue
    \/ CountManga
    \/ CountChapters
    \/ CountQueued
    \/ CountDownloading
    \/ CountFailed
    \/ TotalSize
    \/ QueryDuplicates
    \/ QueryFrozen
    \/ QueryZeroPages

\* python debug-offline-storage.py <manga_id> [extension_id]
NextCheck ==
    \/ CheckConnect
    \/ LookupManga
    \/ LookupChapters
    \/ LookupQueue

----------------------------------------------------------------------------
(* The external downloader, owner of the store: it commits between the     *)
(* queries of a run.  What it wrote before the run is part of Init.        *)

MaxWrites == 1

ChapterNumberOf(cid) == IF cid = "c1" THEN 1 ELSE 2

Commit ==
    /\ connOpen
    /\ pc \notin {"main", "done", "crashed", "exited"}
    /\ writes < MaxWrites
    /\ writes' = writes + 1
    /\ fresh' = {}
    /\ UNCHANGED <<dbExists, dbAtOpen, now, argv, pc, connOpen, exitStatus, out, res>>

\* A chapter finished downloading: its row is stored under its work
DownloaderStoreChapter ==
    /\ Commit
    /\ {"offline_manga", "offline_chapters"} \subseteq db.schema
    /\ \E m \in Range(db.manga), cid \in {"c1", "c2"}, pages \in {0, 1} :
          /\ ~\E oc \in Range(db.chapters) :
                 oc.offline_manga_id = m.id /\ oc.chapter_id = cid
          /\ db' = [db EXCEPT !.chapters =
                       Append(@, [id |-> Len(@) + 1, offline_manga_id |-> m.id,
                                  chapter_id |-> cid,
                                  chapter_number |-> ChapterNumberOf(cid),
                                  total_pages |-> pages])]

\* A queue entry changes status; started_at is set on entering "downloading"
DownloaderSetStatus ==
    /\ Commit
    /\ "download_queue" \in db.schema
    /\ \E i \in DOMAIN db.queue, st \in Statuses :
          /\ db.queue[i].status # st
          /\ db' = [db EXCEPT !.queue[i].status = st,
                              !.queue[i].started_at =
                                  IF st = "downloading" THEN now ELSE @]

Downloader == DownloaderStoreChapter \/ DownloaderSetStatus

----------------------------------------------------------------------------
(* Store contents *)

SeqsUpTo(S, n) == UNION {[1..k -> S] : k \in 0..n}

WithIds(t) == [i \in DOMAIN t |-> [id |-> i] @@ t[i]]

\* (extension_id, manga_id) is unique in offline_manga
UniqueWorks(t) ==
    \A i, j \in DOMAIN t :
        i # j => <<t[i].extension_id, t[i].manga_id>> # <<t[j].extension_id, t[j].manga_id>>

MangaTables(keys, slugs, dls, sizes, n) ==
    {WithIds(t) : t \in
        {u \in SeqsUpTo([extension_id : {k[1] : k \in keys}, manga_id : {k[2] : k \in keys},
                         manga_slug : slugs, downloaded_at : dls,
                         total_size_bytes : sizes], n) :
            /\ UniqueWorks(u)
            /\ \A i \in DOMAIN u : <<u[i].extension_id, u[i].manga_id>> \in keys}}

ChapterTables(omids, cids, pages, n) ==
    {WithIds(t) : t \in
        SeqsUpTo({[offline_manga_id |-> o, chapter_id |-> c,
                   chapter_number |-> ChapterNumberOf(c), total_pages |-> p] :
                     o \in omids, c \in cids, p \in pages}, n)}

QueueTables(keys, cids, sts, prios, qats, sats, n) ==
    {WithIds(t) : t \in
        SeqsUpTo({[extension_id |-> k[1], manga_id |-> k[2], chapter_id |-> c,
                   status |-> st, priority |-> pr, queued_at |-> qa, started_at |-> sa] :
                     k \in keys, c \in cids, st \in sts, pr \in prios, qa \in qats,
                     sa \in sats}, n)}

\* A store file with the given tables; a table that is not in the schema has no rows
Store(schema, m, c, q) ==
    [schema |-> schema,
     manga |-> IF "offline_manga" \in schema THEN m ELSE <<>>,
     chapters |-> IF "offline_chapters" \in schema THEN c ELSE <<>>,
     queue |-> IF "download_queue" \in schema THEN q ELSE <<>>]

NoStore == Store({}, <<>>, <<>>, <<>>)

InitFrom(DBs, Nows, Argvs) ==
    /\ \/ dbExists = TRUE /\ db \in DBs
       \/ dbExists = FALSE /\ db = NoStore
    /\ dbAtOpen = NoStore
    /\ now \in Nows
    /\ argv \in Argvs
    /\ pc = "main"
    /\ connOpen = FALSE
    /\ exitStatus = -1
    /\ out = <<>>
    /\ res = EmptyRes
    /\ fresh = {}
    /\ writes = 0

M1 == <<DefaultExtension, "m1">>
M2 == <<DefaultExtension, "m2">>
X1 == <<OtherExtension, "m1">>

MaxRows == 1

Schemas ==
    { AllTables \cup {"manga_cache"}, {"manga_cache"}, {"download_queue"},
      {"offline_manga", "offline_chapters"} }

Init ==
    InitFrom(
        { Store(s, m, c, q) :
            s \in Schemas,
            m \in MangaTables({M1}, {"alpha"}, {1000}, {NULL, 1048576}, MaxRows),
            c \in ChapterTables({1}, {"c1"}, {1}, MaxRows),
            q \in QueueTables({M1}, {"c1"}, {"queued", "downloading"},
                               {0}, {1000}, {3570000}, MaxRows) },
        {7200000}, {<<>>, <<"m1">>})

Next == NextRun \/ Downloader

Spec == Init /\ [][Next]_vars

\* Stores for the queue listing and the frozen-download check: the queue varies
MaxQueueRows == 2

InitQueue ==
    InitFrom(
        { Store(AllTables, m, c, q) :
            m \in MangaTables({M1}, {"alpha"}, {1000}, {1048576}, MaxQueueRows),
            c \in {<<>>},
            q \in QueueTables({M1}, {NULLTEXT}, {"queued", "downloading"}, {0, 1},
                               {1000, 2000}, {NULL, 3570000, 3600000, 3600499},
                               MaxQueueRows) },
        {7200000, 7200500}, {<<>>})

SpecQueue == InitQueue /\ [][NextInspect]_vars

\* Stores for the joins of the report: works and chapters vary
MaxJoinRows == 2
MaxJoinQueueRows == 1

InitJoin ==
    InitFrom(
        { Store(AllTables, m, c, q) :
            m \in MangaTables({M1, M2}, {"alpha", "beta"}, {1000}, {1048576}, MaxJoinRows),
            c \in ChapterTables({1, 2}, {"c1", "c2"}, {NULL, 0, 1}, MaxJoinRows),
            q \in QueueTables({M1}, {NULLTEXT, "c1"}, {"queued", "completed"},
                               {0}, {1000}, {NULL}, MaxJoinQueueRows) },
        {7200000}, {<<>>})

SpecJoin == InitJoin /\ [][NextInspect]_vars

\* Stores for the single-target lookup
MaxLookupRows == 2

InitLookup ==
    InitFrom(
        { Store(AllTables, m, c, q) :
            m \in MangaTables({M1, X1}, {"alpha"}, {1000}, {1048576}, MaxLookupRows),
            c \in ChapterTables({1, 2}, {"c1", "c2"}, {1}, MaxLookupRows),
            q \in {t \in QueueTables({M1, X1}, {NULLTEXT}, {"queued"}, {0, 1},
                                       {1000, 2000}, {NULL}, MaxLookupRows) :
                        \A i \in DOMAIN t : t[i].priority = 1 \/ t[i].queued_at = 1000} },
        {7200000}, {<<"m1">>, <<"m1", OtherExtension>>})

SpecLookup == InitLookup /\ [][NextCheck]_vars

----------------------------------------------------------------------------
(* Properties *)

Terminated == pc \in {"done", "crashed", "exited"}

Printed(tag) == \E i \in DOMAIN out : out[i] = tag

\* C1: on every exit path of a run (normal completion, the "no tables" return,
\* the "not found" return, a query or rendering step that fails partway) the
\* store handle that was opened is closed: no terminated run leaves it open.
HandleClosedOnEveryExit == Terminated => ~connOpen

RenderedSections == {"sec1", "sec2", "sec3", "sec4", "duplicates", "frozen"}

\* C2: if a query of the full inventory report fails, the run aborts with a
\* non-zero status and no section rendered before the failing query has been
\* output.
NoPartialReportOnFailure ==
    (pc = "crashed" /\ argv = <<>>) =>
        /\ exitStatus # 0
        /\ \A i \in DOMAIN out : out[i] \notin RenderedSections

\* C3: after the frozen-download check, a queue entry is flagged if and only if
\* status = downloading, started_at is non-null and now - started_at > 3600000,
\* whatever the millisecond part of now is.
FrozenIffOverAnHour ==
    "frozen" \in fresh =>
        \A q \in Range(db.queue) :
            (\E f \in res.frozen : f.id = q.id) <=>
                /\ q.status = "downloading"
                /\ q.started_at # NULL
                /\ now - q.started_at > 3600000

\* C9: for every flagged frozen download the reported minutes equal
\* (now - started_at) / 60000 exactly, the fraction preserved.
FrozenMinutesExact ==
    "frozen" \in fresh =>
        \A f \in res.frozen : f.minutes_elapsed * 60000 = now - f.started_at

IsDuplicate(d, q) ==
    /\ q.chapter_id # NULLTEXT
    /\ \E m \in Range(d.manga), c \in Range(d.chapters) :
          /\ m.extension_id = q.extension_id
          /\ m.manga_id = q.manga_id
          /\ c.offline_manga_id = m.id
          /\ c.chapter_id = q.chapter_id

FindingsFor(qid) ==
    SumOver(res.duplicate_queue, {p \in DOMAIN res.duplicate_queue : p.queue_id = qid})

\* C4: the duplicate check yields exactly one finding for each queue entry with
\* a non-null chapter_id whose work owns a downloaded chapter with that
\* chapter_id, and none for any other entry, whatever the entry's status and
\* however many downloaded-chapter rows of the work carry that chapter_id.
OneFindingPerDuplicate ==
    "duplicate_queue" \in fresh =>
        \A q \in Range(db.queue) :
            FindingsFor(q.id) = IF IsDuplicate(db, q) THEN 1 ELSE 0

ChapterKey(c) ==
    [chapter_id |-> c.chapter_id, chapter_number |-> c.chapter_number,
     total_pages |-> c.total_pages]

ZeroFindings(k) ==
    SumOver(res.zero_pages, {p \in DOMAIN res.zero_pages : ChapterKey(p) = k})

\* C5: a downloaded-chapter row produces an empty-chapter finding if and only
\* if its total_pages is 0 or null; no such row is skipped because of its
\* owning work row, and a row with total_pages >= 1 is never flagged.
EmptyChapterIff ==
    "zero_pages" \in fresh =>
        \A c \in Range(db.chapters) :
            ZeroFindings(ChapterKey(c)) =
                IF c.total_pages = 0 \/ c.total_pages = NULL
                THEN Cardinality({x \in Range(db.chapters) : ChapterKey(x) = ChapterKey(c)})
                ELSE 0

InQueueOrder(s) ==
    \A i, j \in DOMAIN s :
        i < j =>
            \/ s[i].priority > s[j].priority
            \/ s[i].priority = s[j].priority /\ s[i].queued_at <= s[j].queued_at

IsListingOf(s, rows) ==
    /\ Range(s) = rows
    /\ Len(s) = Cardinality(rows)

\* C6: the queue listing is a permutation of the entries sorted by priority
\* descending, then queued_at ascending; entries equal on both keys appear in
\* their stored order.
QueueListingStable ==
    "queue" \in fresh =>
        /\ IsListingOf(res.queue, Range(db.queue))
        /\ InQueueOrder(res.queue)
        /\ \A i, j \in DOMAIN res.queue :
              (/\ i < j
               /\ res.queue[i].priority = res.queue[j].priority
               /\ res.queue[i].queued_at = res.queue[j].queued_at)
                  => res.queue[i].id < res.queue[j].id

OwnerOf(row) == db.chapters[row.id].offline_manga_id

\* C8: each displayed group of the chapter listing holds the chapters of
\* exactly one work, chapters ascend by chapter_number within a group, and
\* groups ascend by slug, also when two distinct works share a slug.
GroupsAreWorks ==
    "chapters" \in fresh =>
        LET G == Groups(res.chapters)
        IN  /\ \A g \in DOMAIN G :
                  /\ \A i, j \in DOMAIN G[g] : OwnerOf(G[g][i]) = OwnerOf(G[g][j])
                  /\ \A i, j \in DOMAIN G[g] :
                        i < j => G[g][i].chapter_number <= G[g][j].chapter_number
            /\ \A g, h \in DOMAIN G :
                  g < h => ~TextLess(G[h][1].manga_slug, G[g][1].manga_slug)

LookupFinished == pc = "done" /\ argv # <<>>

MatchingWorks == LookupMangaRows(db, ArgExtensionId, ArgMangaId)

MatchingQueue ==
    {q \in Range(db.queue) :
        q.extension_id = ArgExtensionId /\ q.manga_id = ArgMangaId}

InChapterOrder(s) ==
    \A i, j \in DOMAIN s : i < j => s[i].chapter_number <= s[j].chapter_number

FoundAnswer ==
    /\ Len(res.l_manga) = 1
    /\ res.l_manga[1] \in MatchingWorks
    /\ Printed("l_manga")
    /\ IsListingOf(res.l_chapters,
                   {c \in Range(db.chapters) : c.offline_manga_id = res.l_manga[1].id})
    /\ InChapterOrder(res.l_chapters)
    /\ Printed("l_chapters")

QueueAnswer ==
    /\ IsListingOf(res.l_queue, MatchingQueue)
    /\ InQueueOrder(res.l_queue)

\* C7 as stated: a finished lookup reports the matching queue entries, in
\* queue order, together with either the work row and its chapters by
\* chapter_number or the explicit not-found result, also when no work row
\* exists for the pair.
LookupReportsQueueAlways ==
    LookupFinished =>
        /\ QueueAnswer
        /\ IF MatchingWorks = {} THEN Printed("l_not_found") ELSE FoundAnswer

\* C7 as the code has it: when a work row exists for the pair, a finished
\* lookup reports that row, its chapters by chapter_number ascending and the
\* matching queue entries by priority descending then queued_at ascending;
\* when none exists the answer is the not-found result alone, a normal exit,
\* and the queue is neither read nor reported.
LookupAnswer ==
    LookupFinished =>
        IF MatchingWorks = {}
        THEN /\ out = <<"l_banner", "l_not_found">>
             /\ res.l_manga = <<>>
             /\ "l_queue" \notin fresh
             /\ exitStatus = 0
        ELSE FoundAnswer /\ QueueAnswer /\ Printed("l_queue") /\ exitStatus = 0

\* C7 witness: a found work with two chapters stored out of order and two
\* matching queue entries stored out of order, beside one that does not match
LookupAnswerWitness ==
    /\ LookupFinished
    /\ MatchingWorks # {}
    /\ Len(res.l_chapters) = 2
    /\ res.l_chapters[1].id > res.l_chapters[2].id
    /\ res.l_chapters[1].chapter_number < res.l_chapters[2].chapter_number
    /\ Len(res.l_queue) = 2
    /\ res.l_queue[1].id > res.l_queue[2].id
    /\ res.l_queue[1].priority > res.l_queue[2].priority

AgreesWith(q, d) ==
    CASE q = "manga_list" -> res.manga_list \in SelectManga(d)
      [] q = "chapters" -> res.chapters \in SelectChapters(d)
      [] q = "queue" -> res.queue \in SelectQueue(d)
      [] q = "manga_count" -> res.manga_count = Len(d.manga)
      [] q = "chapter_count" -> res.chapter_count = Len(d.chapters)
      [] q = "queued_count" -> res.queued_count = CountStatus(d, "queued")
      [] q = "downloading_count" -> res.downloading_count = CountStatus(d, "downloading")
      [] q = "failed_count" -> res.failed_count = CountStatus(d, "failed")
      [] q = "total_size" -> res.total_size = OrZero(SumSize(d))
      [] q = "duplicate_queue" -> res.duplicate_queue = SelectDuplicates(d)
      [] q = "frozen" -> res.frozen = SelectFrozen(d, now)
      [] q = "zero_pages" -> res.zero_pages = SelectZeroPages(d)
      [] q = "l_manga" ->
            IF LookupMangaRows(d, ArgExtensionId, ArgMangaId) = {}
            THEN res.l_manga = <<>>
            ELSE /\ Len(res.l_manga) = 1
                 /\ res.l_manga[1] \in LookupMangaRows(d, ArgExtensionId, ArgMangaId)
      [] q = "l_chapters" -> res.l_chapters \in LookupChapterRows(d, res.l_manga[1].id)
      [] q = "l_queue" -> res.l_queue \in LookupQueueRows(d, ArgExtensionId, ArgMangaId)

ReportQueries ==
    {"manga_list", "chapters", "queue", "manga_count", "chapter_count", "queued_count",
     "downloading_count", "failed_count", "total_size", "duplicate_queue", "frozen",
     "zero_pages"}

\* C10: the queries of one run are independent reads of the live store.  Every
\* query that ran after the downloader's last commit returned what the store
\* holds now, so a later query observes a commit that an earlier one missed;
\* and with no commit during the run every query of a finished report
\* returned what the one store state, the state at open, holds.
IndependentReads ==
    /\ \A q \in fresh : AgreesWith(q, db)
    /\ (writes = 0 /\ connOpen) => db = dbAtOpen
    /\ (writes = 0 /\ pc = "done" /\ Printed("footer")) =>
          /\ fresh = ReportQueries
          /\ \A q \in ReportQueries : AgreesWith(q, dbAtOpen)

\* C10 witness: a finished report that is inconsistent with itself.  The
\* chapter listing ran before the commit and the chapter count after it: the
\* count is the store's, the listing is one short, and no chapter is orphaned.
IndependentReadsWitness ==
    /\ pc = "done" /\ Printed("footer")
    /\ writes = 1
    /\ "chapter_count" \in fresh
    /\ "chapters" \notin fresh
    /\ res.chapter_count = Len(db.chapters)
    /\ Len(res.chapters) + 1 = res.chapter_count
    /\ \A c \in Range(db.chapters) : \E m \in Range(db.manga) : m.id = c.offline_manga_id

====
